---- MODULE Spec2Model ----
(***************************************************************************)
(* A model of lib-result: the Result algebra (Ok / Err and the methods     *)
(* composed onto every instance), the error normalisation helpers and the  *)
(* synchronous and asynchronous wrappers.                                  *)
(*                                                                         *)
(* JavaScript values are modelled as tagged records; objects live in a     *)
(* heap and are referred to by their index, so that "the same object" is   *)
(* reference equality.  Every library function is an operator from a store *)
(* to a completion [st, outcome, val] where outcome is "return" or "throw".*)
(***************************************************************************)
EXTENDS Naturals, Sequences, FiniteSets, TLC

\* Number of objects the library and the callbacks may allocate in one run.
MaxAlloc == 3

\* ------------------------------------------------------------------------
\* JavaScript values
\* ------------------------------------------------------------------------
Val(t, n, s) == [t |-> t, n |-> n, s |-> s]
Undef   == Val("undef", 0, "")
Null    == Val("null", 0, "")
Absent  == Val("absent", 0, "")
Num(k)  == Val("num", k, "")
Str(x)  == Val("str", 0, x)
Bool(b) == Val("bool", IF b THEN 1 ELSE 0, "")
Ref(i)  == Val("ref", i, "")

\* Property names an object of the model may carry.
Keys == {"ok", "error", "message", "cause", "code"}

NoProps == [k \in Keys |-> Absent]

\* A heap object: an Error instance (cls names its class), a plain
\* key-value object, or a Result (a plain object carrying the methods).
Obj(kind, cls, f, methods, frozen) ==
  [kind |-> kind, cls |-> cls, f |-> f, methods |-> methods, frozen |-> frozen]

\* new Error(message) and subclasses.
NewErrorObj(cls, message) ==
  Obj("Error", cls, [NoProps EXCEPT !["message"] = message], {}, FALSE)

PlainObj(f) == Obj("Object", "Object", f, {}, FALSE)

\* this.<k>: a missing property reads as undefined.
Get(st, v, k) ==
  IF v.t = "ref" /\ st.heap[v.n].f[k] # Absent THEN st.heap[v.n].f[k] ELSE Undef

\* e instanceof Error
InstanceOfError(st, v) == v.t = "ref" /\ st.heap[v.n].kind = "Error"

\* Completion records.
Return(st, v) == [st |-> st, outcome |-> "return", val |-> v]
Throw(st, v)  == [st |-> st, outcome |-> "throw", val |-> v]

\* Allocation of a new object; its reference is Len(heap) afterwards.
\* made is the construction record of each object (a history of the model).
Alloc(st, o, by, arg) ==
  [st EXCEPT !.heap = Append(@, o),
             !.made = Append(@, [by |-> by, arg |-> arg])]
Newest(st) == Ref(Len(st.heap))

\* ------------------------------------------------------------------------
\* utils: error normalisation
\* ------------------------------------------------------------------------

\* typeof value === "object" && value !== null && !Array.isArray(value)
isKeyValue(st, v) == v.t = "ref" /\ st.heap[v.n].kind # "Array"

\* JavaScript truthiness of a value (for props?.message || "Unknown Error").
Truthy(v) ==
  CASE v.t \in {"undef", "null", "absent"} -> FALSE
    [] v.t = "num"  -> v.n # 0
    [] v.t = "bool" -> v.n = 1
    [] v.t = "str"  -> v.s # ""
    [] OTHER        -> TRUE

\* String(v), the conversion new Error(v) applies to its message argument.
NumStr(k) ==
  CASE k = 0 -> "0" [] k = 1 -> "1" [] k = 2 -> "2" [] k = 3 -> "3"
    [] k = 404 -> "404" [] OTHER -> "<number>"
ToStr(st, v) ==
  CASE v.t = "str"  -> v.s
    [] v.t = "num"  -> NumStr(v.n)
    [] v.t = "bool" -> IF v.n = 1 THEN "true" ELSE "false"
    [] v.t = "null" -> "null"
    [] v.t = "ref"  ->
         IF st.heap[v.n].kind = "Error"
         THEN st.heap[v.n].cls \o ": " \o Get(st, v, "message").s
         ELSE "[object Object]"
    [] OTHER        -> "undefined"

\* Object.assign(target, props): every own enumerable property of props is
\* set on target.  The message of an Error instance is not enumerable.
ObjectAssign(target, props) ==
  [target EXCEPT !.f = [k \in Keys |->
     IF props.f[k] # Absent /\ ~(props.kind = "Error" /\ k = "message")
     THEN props.f[k] ELSE @[k]]]

\* Mutant of createCustomError: the default message is the empty string.
createCustomError_EmptyDefault(st, props) ==
  LET m     == Get(st, props, "message")
      error == NewErrorObj("Error", Str(IF Truthy(m) THEN ToStr(st, m) ELSE ""))
      made  == IF isKeyValue(st, props) THEN ObjectAssign(error, st.heap[props.n]) ELSE error
      st2   == Alloc(st, made, "createCustomError", props)
  IN  Return(st2, Newest(st2))

\* Mutant of createCustomError: the properties are not assigned.
createCustomError_MessageOnly(st, props) ==
  LET m     == Get(st, props, "message")
      error == NewErrorObj("Error", Str(IF Truthy(m) THEN ToStr(st, m) ELSE "Unknown Error"))
      st2   == Alloc(st, error, "createCustomError", props)
  IN  Return(st2, Newest(st2))

\* createCustomError(props): new Error(props?.message || "Unknown Error")
\* with the properties of props assigned onto it when props is a key-value.
createCustomError(st, props) ==
  LET m     == Get(st, props, "message")
      error == NewErrorObj("Error", Str(IF Truthy(m) THEN ToStr(st, m) ELSE "Unknown Error"))
      made  == IF isKeyValue(st, props) THEN ObjectAssign(error, st.heap[props.n]) ELSE error
      st2   == Alloc(st, made, "createCustomError", props)
  IN  Return(st2, Newest(st2))

\* Mutant of toError: the Error built for a string is not returned.
toError_StringFallsThrough(st, e) ==
  IF InstanceOfError(st, e) THEN Return(st, e)
  ELSE IF isKeyValue(st, e) THEN createCustomError(st, e)
  ELSE
    LET st2 == Alloc(st, NewErrorObj("Error", Str("Unknown error")), "toError", e)
    IN  Return(st2, Newest(st2))

\* Mutant of toError: key-value objects are not promoted.
toError_NoKeyValue(st, e) ==
  IF InstanceOfError(st, e) THEN Return(st, e)
  ELSE IF e.t = "str" THEN
    LET st2 == Alloc(st, NewErrorObj("Error", e), "toError", e)
    IN  Return(st2, Newest(st2))
  ELSE
    LET st2 == Alloc(st, NewErrorObj("Error", Str("Unknown error")), "toError", e)
    IN  Return(st2, Newest(st2))

\* Mutant of toError: a value that has a string message is returned as it is.
toError_Structural(st, e) ==
  IF Get(st, e, "message").t = "str" THEN Return(st, e)
  ELSE IF e.t = "str" THEN
    LET st2 == Alloc(st, NewErrorObj("Error", e), "toError", e)
    IN  Return(st2, Newest(st2))
  ELSE IF isKeyValue(st, e) THEN createCustomError(st, e)
  ELSE
    LET st2 == Alloc(st, NewErrorObj("Error", Str("Unknown error")), "toError", e)
    IN  Return(st2, Newest(st2))

\* toError(e)
toError(st, e) ==
  IF InstanceOfError(st, e) THEN Return(st, e)
  ELSE IF e.t = "str" THEN
    LET st2 == Alloc(st, NewErrorObj("Error", e), "toError", e)
    IN  Return(st2, Newest(st2))
  ELSE IF isKeyValue(st, e) THEN createCustomError(st, e)
  ELSE
    LET st2 == Alloc(st, NewErrorObj("Error", Str("Unknown error")), "toError", e)
    IN  Return(st2, Newest(st2))

\* ------------------------------------------------------------------------
\* mixens: the Result constructors and the methods composed onto them
\* ------------------------------------------------------------------------
methodsArray ==
  {"isOk", "isError", "unwrap", "expect", "map", "pipe", "match", "orElse", "unwrapOr"}

\* compose(base, ...fns): the base object with every method attached, frozen.
compose(st, ok, error, by, arg) ==
  LET base == Obj("Result", "Object",
                  [NoProps EXCEPT !["ok"] = ok, !["error"] = error],
                  methodsArray, TRUE)
      st2  == Alloc(st, base, by, arg)
  IN  Return(st2, Newest(st2))

\* Ok(ok)
Ok(st, ok) == compose(st, ok, Undef, "Ok", ok)

\* Mutant of Err: the instanceof check is missing.
Err_NoCheck(st, error) == compose(st, Undef, error, "Err", error)

\* Mutant of Err: the check is structural (the value has a message).
Err_ChecksMessage(st, error) ==
  IF Get(st, error, "message") = Undef THEN
    LET st2 == Alloc(st,
                 NewErrorObj("TypeError",
                   Str("Err expects an Error instance, use ErrFromObject instead.")),
                 "Err", error)
    IN  Throw(st2, Newest(st2))
  ELSE compose(st, Undef, error, "Err", error)

\* Err(error): a TypeError is thrown unless error instanceof Error.
Err(st, error) ==
  IF ~InstanceOfError(st, error) THEN
    LET st2 == Alloc(st,
                 NewErrorObj("TypeError",
                   Str("Err expects an Error instance, use ErrFromObject instead.")),
                 "Err", error)
    IN  Throw(st2, Newest(st2))
  ELSE compose(st, Undef, error, "Err", error)

\* Mutant of ErrFromText: an empty message is replaced by the default one.
ErrFromText_Defaults(st, message) ==
  LET m   == IF Truthy(message) THEN ToStr(st, message) ELSE "Unknown Error"
      st2 == Alloc(st, NewErrorObj("Error", Str(m)), "ErrFromText", message)
  IN  compose(st2, Undef, Newest(st2), "ErrFromText", message)

\* ErrFromText(message)
ErrFromText(st, message) ==
  LET st2 == Alloc(st, NewErrorObj("Error", Str(ToStr(st, message))), "ErrFromText", message)
  IN  compose(st2, Undef, Newest(st2), "ErrFromText", message)

\* ErrFromObject(props)
ErrFromObject(st, props) ==
  LET c == createCustomError(st, props)
  IN  compose(c.st, Undef, c.val, "ErrFromObject", props)

\* this.isOk()
isOk(st, this) == Get(st, this, "error") = Undef

\* Mutant of isError: the variant is read off the ok field.
isError_ByOk(st, this) == Get(st, this, "ok") = Undef

\* this.isError()
isError(st, this) == Get(st, this, "error") # Undef

\* Mutant of unwrap: the variant is read off the ok field.
unwrap_ByOk(st, this) ==
  IF Get(st, this, "ok") # Undef THEN Return(st, Get(st, this, "ok"))
  ELSE Throw(st, Get(st, this, "error"))

\* Mutant of unwrap: the stored error is thrown wrapped in a new error.
unwrap_Wraps(st, this) ==
  IF isOk(st, this) THEN Return(st, Get(st, this, "ok"))
  ELSE LET st2 == Alloc(st,
                   NewErrorObj("Error", Get(st, Get(st, this, "error"), "message")),
                   "unwrap", Get(st, this, "error"))
       IN  Throw(st2, Newest(st2))

\* this.unwrap()
unwrap(st, this) ==
  IF isOk(st, this) THEN Return(st, Get(st, this, "ok"))
  ELSE Throw(st, Get(st, this, "error"))

\* ------------------------------------------------------------------------
\* Callbacks handed to the library by its caller.  A callback is a record
\* [beh, v]; calling it is logged in st.calls.
\* ------------------------------------------------------------------------
Fn(beh, v) == [beh |-> beh, v |-> v]
NoFn == Fn("none", Undef)

Call(st, fn, x) ==
  LET st1 == [st EXCEPT !.calls = Append(@, [fn |-> fn, arg |-> x])]
  IN  CASE fn.beh = "id"     -> Return(st1, x)
        [] fn.beh = "const"  -> Return(st1, fn.v)
        [] fn.beh = "throw"  -> Throw(st1, fn.v)
        [] fn.beh = "retOk"  -> Ok(st1, x)
        [] fn.beh = "retOkOf" -> Ok(st1, fn.v)
        [] fn.beh = "retErr" -> Err(st1, fn.v)
        [] OTHER             -> Return(st1, Undef)

\* Mutant of the catch clause: the thrown value is thrown on.
CatchToErr_Rethrows(c) == c

\* catch (e) { return Err(toError(e)) }
CatchToErr(c) ==
  LET te == toError(c.st, c.val)
  IN  Err(te.st, te.val)

\* Mutant of map: the callback's value is returned as it is.
map_NoRewrap(st, this, fn) ==
  IF isOk(st, this) THEN
    LET c == Call(st, fn, Get(st, this, "ok"))
    IN  IF c.outcome = "throw" THEN CatchToErr(c) ELSE c
  ELSE Err(st, Get(st, this, "error"))

\* Mutant of map: a callback failure is recorded in the receiver itself.
map_InPlace(st, this, fn) ==
  IF isOk(st, this) THEN
    LET c == Call(st, fn, Get(st, this, "ok"))
    IN  IF c.outcome = "throw"
        THEN LET te == toError(c.st, c.val)
             IN  Return([te.st EXCEPT !.heap[this.n].f =
                           [@ EXCEPT !["ok"] = Undef, !["error"] = te.val]], this)
        ELSE Ok(c.st, c.val)
  ELSE Err(st, Get(st, this, "error"))

\* this.map(fn)
map(st, this, fn) ==
  IF isOk(st, this) THEN
    LET c == Call(st, fn, Get(st, this, "ok"))
    IN  IF c.outcome = "throw" THEN CatchToErr(c) ELSE Ok(c.st, c.val)
  ELSE Err(st, Get(st, this, "error"))

\* Mutant of pipe: the callback is called whatever the variant.
pipe_AlwaysCalls(st, this, fn) ==
  LET c == Call(st, fn, Get(st, this, "ok"))
  IN  IF c.outcome = "throw" THEN CatchToErr(c) ELSE c

\* Mutant of pipe: the callback's value is wrapped in Ok.
pipe_Rewraps(st, this, fn) ==
  IF isOk(st, this) THEN
    LET c == Call(st, fn, Get(st, this, "ok"))
    IN  IF c.outcome = "throw" THEN CatchToErr(c) ELSE Ok(c.st, c.val)
  ELSE Err(st, Get(st, this, "error"))

\* this.pipe(fn)
pipe(st, this, fn) ==
  IF isOk(st, this) THEN
    LET c == Call(st, fn, Get(st, this, "ok"))
    IN  IF c.outcome = "throw" THEN CatchToErr(c) ELSE c
  ELSE Err(st, Get(st, this, "error"))

\* this.expect(message)
\* Mutant of expect: an empty message is left out of the properties.
expect_DropsEmptyMessage(st, this, message) ==
  IF isOk(st, this) THEN Return(st, Get(st, this, "ok"))
  ELSE
    LET props == PlainObj([NoProps EXCEPT
                             !["message"] = IF Truthy(message) THEN message ELSE Absent,
                             !["cause"] = Get(st, this, "error")])
        st2   == Alloc(st, props, "expect", message)
        c     == createCustomError(st2, Newest(st2))
    IN  Throw(c.st, c.val)

expect(st, this, message) ==
  IF isOk(st, this) THEN Return(st, Get(st, this, "ok"))
  ELSE
    LET props == PlainObj([NoProps EXCEPT !["message"] = message,
                                          !["cause"] = Get(st, this, "error")])
        st2   == Alloc(st, props, "expect", message)
        c     == createCustomError(st2, Newest(st2))
    IN  Throw(c.st, c.val)

\* this.match(okFn, errFn): whatever the try block throws, errFn's call
\* included, is normalised and handed to errFn.
\* Mutant of match: okFn is called whatever the variant.
match_NoDispatch(st, this, okFn, errFn) ==
  LET c == Call(st, okFn, Get(st, this, "ok"))
  IN  IF c.outcome = "throw"
      THEN LET te == toError(c.st, c.val) IN Call(te.st, errFn, te.val)
      ELSE c

\* Mutant of match: what okFn throws is thrown on.
match_Rethrows(st, this, okFn, errFn) ==
  IF isOk(st, this) THEN Call(st, okFn, Get(st, this, "ok"))
  ELSE Call(st, errFn, Get(st, this, "error"))

match(st, this, okFn, errFn) ==
  LET c == IF isOk(st, this) THEN Call(st, okFn, Get(st, this, "ok"))
           ELSE Call(st, errFn, Get(st, this, "error"))
  IN  IF c.outcome = "throw"
      THEN LET te == toError(c.st, c.val) IN Call(te.st, errFn, te.val)
      ELSE c

\* this.orElse(errFn): what errFn throws is thrown on normalised.
\* Mutant of orElse: errFn is called whatever the variant.
orElse_AlwaysCalls(st, this, errFn) ==
  LET c == Call(st, errFn, Get(st, this, "error"))
  IN  IF c.outcome = "throw"
      THEN LET te == toError(c.st, c.val) IN Throw(te.st, te.val)
      ELSE c

\* Mutant of orElse: no catch clause, what errFn throws is thrown on as it is.
orElse_NoCatch(st, this, errFn) ==
  IF isOk(st, this) THEN Return(st, Get(st, this, "ok"))
  ELSE Call(st, errFn, Get(st, this, "error"))

orElse(st, this, errFn) ==
  IF isOk(st, this) THEN Return(st, Get(st, this, "ok"))
  ELSE
    LET c == Call(st, errFn, Get(st, this, "error"))
    IN  IF c.outcome = "throw"
        THEN LET te == toError(c.st, c.val) IN Throw(te.st, te.val)
        ELSE c

\* this.unwrapOr(fallback)
\* Mutant of unwrapOr: the variant is read off the ok field.
unwrapOr_ByOk(st, this, fallback) ==
  IF Get(st, this, "ok") # Undef THEN Return(st, Get(st, this, "ok"))
  ELSE Return(st, fallback)

unwrapOr(st, this, fallback) ==
  IF isOk(st, this) THEN Return(st, Get(st, this, "ok")) ELSE Return(st, fallback)

\* ------------------------------------------------------------------------
\* main: the synchronous wrappers
\* ------------------------------------------------------------------------

\* wrapThrowable(callback)(arg)
wrapThrowable(st, callback, arg) ==
  LET c == Call(st, callback, arg)
  IN  IF c.outcome = "throw" THEN CatchToErr(c) ELSE Ok(c.st, c.val)

\* Mutant of wrap: no catch clause.
wrap_NoCatch(st, callback) ==
  LET c == Call(st, callback, Undef)
  IN  IF c.outcome = "throw" THEN c ELSE Ok(c.st, c.val)

\* wrap(callback): the callback is called without arguments.
wrap(st, callback) ==
  LET c == Call(st, callback, Undef)
  IN  IF c.outcome = "throw" THEN CatchToErr(c) ELSE Ok(c.st, c.val)

\* ------------------------------------------------------------------------
\* main: the asynchronous wrappers
\* ------------------------------------------------------------------------

\* A promise is pending, or settled with a value or with a reason.
Promise(i)    == Val("promise", i, "")
NoPromise     == [state |-> "none", val |-> Undef]
Pending       == [state |-> "pending", val |-> Undef]
Fulfilled(v)  == [state |-> "fulfilled", val |-> v]
Rejected(r)   == [state |-> "rejected", val |-> r]
IsSettled(p)  == p.state \in {"fulfilled", "rejected"}

\* callback(x) for a callback that returns a promise: it throws fn.v before
\* it returns ("throw"), or returns its promise.
CallAsync(st, fn, x) ==
  LET st1 == [st EXCEPT !.calls = Append(@, [fn |-> fn, arg |-> x])]
  IN  IF fn.beh = "throw" THEN Throw(st1, fn.v) ELSE Return(st1, Promise(1))

\* The promise callback(x) returned, as it is when the callback returns:
\* already fulfilled with x ("resolved": the callback had nothing to wait
\* for), already rejected with fn.v ("rejected"), or pending.
InnerOf(fn, x) ==
  CASE fn.beh = "resolved" -> Fulfilled(x)
    [] fn.beh = "rejected" -> Rejected(fn.v)
    [] fn.beh = "pending"  -> Pending
    [] OTHER               -> NoPromise

\* await q, when it resumes with q settled.
Await(st, q) ==
  IF q.state = "fulfilled" THEN Return(st, q.val) ELSE Throw(st, q.val)

\* The function is suspended at its await.
Suspend(st, v) == [st |-> st, outcome |-> "await", val |-> v]

\* Mutant of the resumption: no catch clause around the await.
AfterAwait_NoCatch(st, q) ==
  LET c == Await(st, q)
  IN  IF c.outcome = "throw" THEN c ELSE Ok(c.st, c.val)

\* try { return Ok(await ...) } catch (e) { return Err(toError(e)) }, from
\* the point where the await resumes.
AfterAwait(st, q) ==
  LET c == Await(st, q)
  IN  IF c.outcome = "throw" THEN CatchToErr(c) ELSE Ok(c.st, c.val)

\* Mutant of wrapAsyncThrowable: the callback's promise is not awaited.
wrapAsyncThrowable_NoAwait(st, callback, arg) ==
  LET c == CallAsync(st, callback, arg)
  IN  IF c.outcome = "throw" THEN CatchToErr(c) ELSE Ok(c.st, c.val)

\* wrapAsyncThrowable(callback)(arg), up to its await.
wrapAsyncThrowable(st, callback, arg) ==
  LET c == CallAsync(st, callback, arg)
  IN  IF c.outcome = "throw" THEN CatchToErr(c) ELSE Suspend(c.st, c.val)

\* wrapAsync(callback), up to its await: the callback is called without
\* arguments.
wrapAsync(st, callback) ==
  LET c == CallAsync(st, callback, Undef)
  IN  IF c.outcome = "throw" THEN CatchToErr(c) ELSE Suspend(c.st, c.val)

\* ------------------------------------------------------------------------
\* The caller: a program that builds Results and calls their methods.
\* ------------------------------------------------------------------------
VARIABLES
  heap,   \* the objects, by reference
  made,   \* made[i]: which constructor allocated heap[i], with what argument
  last,   \* the most recent library call and its completion
  trail,  \* the current chain of map / pipe calls, each on the previous result
  aw      \* the asynchronous call in progress: promises, microtasks, observations

vars == <<heap, made, last, trail, aw>>

\* Objects of the caller that exist before any library call: an Error
\* instance and a plain object that has a message but is no Error.
CallerHeap ==
  << NewErrorObj("Error", Str("boom")),
     PlainObj([NoProps EXCEPT !["message"] = Str("plain"), !["code"] = Num(404)]) >>
TheError == Ref(1)
ThePlain == Ref(2)

\* Values the caller passes to the library or throws from its callbacks.
Inputs == {Undef, Null, Num(1), Str("not an error"), TheError, ThePlain}
Thrown == {Num(1), Str("not an error"), TheError, ThePlain}
OkArgs == {Undef, Null, TheError}
Texts  == {Str(""), Str("not an error")}

Callbacks ==
  {Fn("id", Undef), Fn("retOk", Undef), Fn("retErr", TheError)}
    \cup {Fn("throw", v) : v \in Thrown}

Results == {Ref(i) : i \in {j \in 1..Len(heap) : heap[j].kind = "Result"}}

Store == [heap |-> heap, made |-> made, calls |-> <<>>]

NoCall ==
  [op |-> "none", recv |-> Undef, fn |-> NoFn, fn2 |-> NoFn, arg |-> Undef,
   outcome |-> "return", val |-> Undef, calls |-> <<>>, base |-> Len(CallerHeap)]

\* No asynchronous call has been made.
NoAsync ==
  [pc |-> "idle", inner |-> NoPromise, outer |-> NoPromise, reg |-> <<>>,
   jobs |-> <<>>, log |-> <<>>, workAt |-> "no"]

Init ==
  /\ aw = NoAsync
  /\ heap = CallerHeap
  /\ made = [i \in 1..Len(CallerHeap) |-> [by |-> "caller", arg |-> Undef]]
  /\ last = NoCall
  /\ trail = <<>>

\* The caller builds one root Result (or fails to) with its first call; every
\* later call is a method call on a Result reachable from it.  The library
\* keeps no state of its own, so independent roots would not interact.
AtStart == last.op = "none"

\* The caller observes the completion c of a library call that was given
\* the callbacks fn and fn2.
Observe2(op, recv, fn, fn2, arg, c) ==
  /\ heap' = c.st.heap
  /\ made' = c.st.made
  /\ last' = [op |-> op, recv |-> recv, fn |-> fn, fn2 |-> fn2, arg |-> arg,
              outcome |-> c.outcome, val |-> c.val, calls |-> c.st.calls,
              base |-> Len(heap)]
  /\ UNCHANGED aw

\* The caller observes the completion c of a library call.
Observe(op, recv, fn, arg, c) == Observe2(op, recv, fn, NoFn, arg, c)

\* The call is explored only while the heap stays within the bound.
Finish(op, recv, fn, arg, c) ==
  /\ Len(c.st.heap) <= Len(CallerHeap) + MaxAlloc
  /\ Observe(op, recv, fn, arg, c)

\* A stage of a chain: the call is appended when its receiver is the result
\* of the previous stage, and starts a new chain otherwise.
Stage(op, recv, c) ==
  LET e == [op |-> op, recv |-> recv, res |-> c.val, ncalls |-> Len(c.st.calls)]
  IN  trail' = IF trail # <<>> /\ trail[Len(trail)].res = recv
               THEN Append(trail, e) ELSE <<e>>

DoOk(x) == AtStart /\ Finish("Ok", Undef, NoFn, x, Ok(Store, x)) /\ UNCHANGED trail

DoErr(e) == AtStart /\ Finish("Err", Undef, NoFn, e, Err(Store, e)) /\ UNCHANGED trail

DoErrFromText(m) ==
  AtStart /\ Finish("ErrFromText", Undef, NoFn, m, ErrFromText(Store, m)) /\ UNCHANGED trail

DoErrFromObject(p) ==
  AtStart /\ Finish("ErrFromObject", Undef, NoFn, p, ErrFromObject(Store, p)) /\ UNCHANGED trail

DoWrap(fn) == AtStart /\ Finish("wrap", Undef, fn, Undef, wrap(Store, fn)) /\ UNCHANGED trail

DoWrapThrowable(fn, a) ==
  AtStart /\ Finish("wrapThrowable", Undef, fn, a, wrapThrowable(Store, fn, a)) /\ UNCHANGED trail

DoIsOk(r) ==
  Finish("isOk", r, NoFn, Undef, Return(Store, Bool(isOk(Store, r)))) /\ UNCHANGED trail

DoIsError(r) ==
  Finish("isError", r, NoFn, Undef, Return(Store, Bool(isError(Store, r)))) /\ UNCHANGED trail

DoUnwrap(r) == Finish("unwrap", r, NoFn, Undef, unwrap(Store, r)) /\ UNCHANGED trail

DoMap(r, fn) ==
  LET c == map(Store, r, fn) IN Finish("map", r, fn, Undef, c) /\ Stage("map", r, c)

DoPipe(r, fn) ==
  LET c == pipe(Store, r, fn) IN Finish("pipe", r, fn, Undef, c) /\ Stage("pipe", r, c)

Next ==
  \/ \E x \in OkArgs : DoOk(x)
  \/ \E e \in Inputs : DoErr(e)
  \/ \E m \in Texts : DoErrFromText(m)
  \/ \E p \in {Undef, ThePlain} : DoErrFromObject(p)
  \/ \E fn \in Callbacks : DoWrap(fn)
  \/ \E fn \in {Fn("id", Undef), Fn("throw", Num(1))}, a \in {Num(1), TheError} :
       DoWrapThrowable(fn, a)
  \/ \E r \in Results : DoIsOk(r)
  \/ \E r \in Results : DoIsError(r)
  \/ \E r \in Results : DoUnwrap(r)
  \/ \E r \in Results, fn \in Callbacks : DoMap(r, fn)
  \/ \E r \in Results, fn \in Callbacks : DoPipe(r, fn)

Spec == Init /\ [][Next]_vars

\* ------------------------------------------------------------------------
\* A pipeline: one root Result and then a chain of map / pipe stages, each
\* called on the Result the previous stage returned.
\* ------------------------------------------------------------------------
MaxStages == 3

StageFns ==
  {Fn("id", Undef), Fn("retOk", Undef), Fn("retErr", TheError),
   Fn("throw", Str("not an error"))}

\* The Result the next stage is called on.
Cur == IF trail = <<>> THEN last.val ELSE trail[Len(trail)].res

ChainOk(x) == AtStart /\ Observe("Ok", Undef, NoFn, x, Ok(Store, x)) /\ UNCHANGED trail

ChainErr(e) == AtStart /\ Observe("Err", Undef, NoFn, e, Err(Store, e)) /\ UNCHANGED trail

ChainMap(fn) ==
  /\ Cur \in Results
  /\ Len(trail) < MaxStages
  /\ LET c == map(Store, Cur, fn)
     IN  Observe("map", Cur, fn, Undef, c) /\ Stage("map", Cur, c)

ChainPipe(fn) ==
  /\ Cur \in Results
  /\ Len(trail) < MaxStages
  /\ LET c == pipe(Store, Cur, fn)
     IN  Observe("pipe", Cur, fn, Undef, c) /\ Stage("pipe", Cur, c)

NextChain ==
  \/ \E x \in {Num(1), Undef} : ChainOk(x)
  \/ \E e \in {TheError} : ChainErr(e)
  \/ \E fn \in StageFns : ChainMap(fn)
  \/ \E fn \in StageFns : ChainPipe(fn)

SpecChain == Init /\ [][NextChain]_vars

\* ------------------------------------------------------------------------
\* Consuming a Result: one root Result, a few map / pipe calls on it, and
\* the calls that take the value or the error out of a Result.
\* ------------------------------------------------------------------------

\* Callbacks and arguments of the consuming calls.
OkFns     == {Fn("const", Num(1)), Fn("throw", Str("not an error")), Fn("throw", TheError)}
ErrFns    == {Fn("id", Undef), Fn("throw", Num(1))}
ElseFns   == {Fn("id", Undef)} \cup {Fn("throw", v) : v \in Thrown}
Fallbacks == {Undef, Num(1)}
UseFns    == {Fn("id", Undef), Fn("throw", Str("not an error"))}

\* The objects the caller still holds when it makes the next call: its own
\* objects and everything up to the newest Result.  What an earlier consuming
\* call returned or threw was a temporary and is gone.
LiveLen ==
  IF Results = {} THEN Len(heap)
  ELSE CHOOSE n \in 1..Len(heap) : Ref(n) \in Results /\ \A r \in Results : r.n <= n

LiveStore ==
  [heap |-> SubSeq(heap, 1, LiveLen), made |-> SubSeq(made, 1, LiveLen), calls |-> <<>>]

\* The caller observes the completion c of a call made over the live objects.
\* A consuming call leaves at most two temporaries, so only map and pipe,
\* whose results the caller keeps, are bounded.
Consume(op, recv, fn, fn2, arg, c) ==
  /\ heap' = c.st.heap
  /\ made' = c.st.made
  /\ last' = [op |-> op, recv |-> recv, fn |-> fn, fn2 |-> fn2, arg |-> arg,
              outcome |-> c.outcome, val |-> c.val, calls |-> c.st.calls,
              base |-> LiveLen]
  /\ UNCHANGED aw

DoExpect(r, m) ==
  Consume("expect", r, NoFn, NoFn, m, expect(LiveStore, r, m)) /\ UNCHANGED trail

DoMatch(r, okFn, errFn) ==
  Consume("match", r, okFn, errFn, Undef, match(LiveStore, r, okFn, errFn))
    /\ UNCHANGED trail

DoOrElse(r, fn) ==
  Consume("orElse", r, fn, NoFn, Undef, orElse(LiveStore, r, fn)) /\ UNCHANGED trail

DoUnwrapOr(r, fb) ==
  Consume("unwrapOr", r, NoFn, NoFn, fb, unwrapOr(LiveStore, r, fb)) /\ UNCHANGED trail

UseIsOk(r) ==
  Consume("isOk", r, NoFn, NoFn, Undef, Return(LiveStore, Bool(isOk(LiveStore, r))))
    /\ UNCHANGED trail

UseIsError(r) ==
  Consume("isError", r, NoFn, NoFn, Undef, Return(LiveStore, Bool(isError(LiveStore, r))))
    /\ UNCHANGED trail

UseUnwrap(r) ==
  Consume("unwrap", r, NoFn, NoFn, Undef, unwrap(LiveStore, r)) /\ UNCHANGED trail

UseMap(r, fn) ==
  LET c == map(LiveStore, r, fn)
  IN  /\ Len(c.st.heap) < Len(CallerHeap) + MaxAlloc
      /\ Consume("map", r, fn, NoFn, Undef, c)
      /\ Stage("map", r, c)

UsePipe(r, fn) ==
  LET c == pipe(LiveStore, r, fn)
  IN  /\ Len(c.st.heap) < Len(CallerHeap) + MaxAlloc
      /\ Consume("pipe", r, fn, NoFn, Undef, c)
      /\ Stage("pipe", r, c)

NextUse ==
  \/ \E x \in OkArgs : DoOk(x)
  \/ \E e \in Inputs : DoErr(e)
  \/ \E m \in Texts : DoErrFromText(m)
  \/ \E r \in Results, m \in Texts : DoExpect(r, m)
  \/ \E r \in Results, okFn \in OkFns, errFn \in ErrFns : DoMatch(r, okFn, errFn)
  \/ \E r \in Results, fn \in ElseFns : DoOrElse(r, fn)
  \/ \E r \in Results, fb \in Fallbacks : DoUnwrapOr(r, fb)
  \/ \E r \in Results : UseIsOk(r)
  \/ \E r \in Results : UseIsError(r)
  \/ \E r \in Results : UseUnwrap(r)
  \/ \E r \in Results, fn \in UseFns : UseMap(r, fn)
  \/ \E r \in Results, fn \in UseFns : UsePipe(r, fn)

SpecUse == Init /\ [][NextUse]_vars

\* ------------------------------------------------------------------------
\* An asynchronous call: the caller awaits the promise of wrapAsync or of
\* the function wrapAsyncThrowable returned, while the callback's promise
\* settles and other work is queued.  Microtasks run in the order they were
\* queued.  Next to the caller's continuation C the model runs D, the
\* continuation of a caller that awaits the callback's promise directly,
\* and M, a piece of other work queued at some point of the run.
\* ------------------------------------------------------------------------
AsyncFns ==
  {Fn("resolved", Undef), Fn("pending", Undef)}
    \cup {Fn(b, v) : b \in {"throw", "rejected"}, v \in {Str("not an error"), TheError}}

Reasons == {Str("not an error"), TheError}

\* The wrapper ran up to its await (or to its end, when the callback threw)
\* and returned its promise, which the caller awaits.
StartAsync(op, fn, arg, c) ==
  /\ AtStart
  /\ heap' = c.st.heap
  /\ made' = c.st.made
  /\ last' = [op |-> op, recv |-> Undef, fn |-> fn, fn2 |-> NoFn, arg |-> arg,
              outcome |-> c.outcome, val |-> c.val, calls |-> c.st.calls,
              base |-> Len(heap)]
  /\ LET q    == InnerOf(fn, arg)
         done == c.outcome # "await"
         reg  == (IF done THEN <<>> ELSE <<"resume">>)
                   \o (IF q.state = "none" THEN <<>> ELSE <<"D">>)
     IN  aw' = [pc     |-> IF done THEN "done" ELSE "awaiting",
                inner  |-> q,
                outer  |-> CASE c.outcome = "return" -> Fulfilled(c.val)
                             [] c.outcome = "throw"  -> Rejected(c.val)
                             [] OTHER                -> Pending,
                reg    |-> reg,
                jobs   |-> (IF IsSettled(q) THEN reg ELSE <<>>)
                             \o (IF done THEN <<"C">> ELSE <<>>),
                log    |-> IF q.state = "none" THEN <<"D">> ELSE <<>>,
                workAt |-> "no"]
  /\ UNCHANGED trail

DoWrapAsync(fn) == StartAsync("wrapAsync", fn, Undef, wrapAsync(Store, fn))

DoWrapAsyncThrowable(fn, a) ==
  StartAsync("wrapAsyncThrowable", fn, a, wrapAsyncThrowable(Store, fn, a))

\* The callback's promise settles: the continuations waiting for it are
\* queued in the order they were registered.
SettleInner(p) ==
  /\ aw.inner.state = "pending"
  /\ aw' = [aw EXCEPT !.inner = p, !.jobs = @ \o aw.reg]
  /\ UNCHANGED <<heap, made, last, trail>>

\* Some other part of the program queues a microtask.
QueueWork ==
  /\ aw.pc # "idle"
  /\ aw.workAt = "no"
  /\ aw' = [aw EXCEPT !.jobs = Append(@, "M"),
                      !.workAt = IF aw.pc = "done" THEN "resumed"
                                 ELSE IF aw.inner.state = "pending" THEN "unsettled"
                                 ELSE "settled"]
  /\ UNCHANGED <<heap, made, last, trail>>

\* The first microtask is the wrapper's resumption: it runs to its return,
\* which settles the wrapper's promise and queues the caller's continuation.
RunResume ==
  /\ aw.jobs # <<>>
  /\ Head(aw.jobs) = "resume"
  /\ LET c == AfterAwait([Store EXCEPT !.calls = last.calls], aw.inner)
     IN  /\ heap' = c.st.heap
         /\ made' = c.st.made
         /\ last' = [last EXCEPT !.outcome = c.outcome, !.val = c.val]
         /\ aw' = [aw EXCEPT !.pc = "done",
                             !.outer = IF c.outcome = "return" THEN Fulfilled(c.val)
                                       ELSE Rejected(c.val),
                             !.jobs = Append(Tail(@), "C")]
  /\ UNCHANGED trail

\* The first microtask is a continuation of the program: it observes.
RunContinuation ==
  /\ aw.jobs # <<>>
  /\ Head(aw.jobs) # "resume"
  /\ aw' = [aw EXCEPT !.jobs = Tail(@), !.log = Append(@, Head(aw.jobs))]
  /\ UNCHANGED <<heap, made, last, trail>>

NextAsync ==
  \/ \E fn \in AsyncFns : DoWrapAsync(fn)
  \/ \E fn \in AsyncFns, a \in {Num(1)} : DoWrapAsyncThrowable(fn, a)
  \/ \E v \in {last.arg} : SettleInner(Fulfilled(v))
  \/ \E r \in Reasons : SettleInner(Rejected(r))
  \/ QueueWork
  \/ RunResume
  \/ RunContinuation

\* The event loop runs every queued microtask.
SpecAsync ==
  Init /\ [][NextAsync]_vars /\ WF_vars(RunResume) /\ WF_vars(RunContinuation)

\* ------------------------------------------------------------------------
\* The constructors, the wrappers and the normalisation helpers applied to
\* values of every shape: one call on a value of the caller, and then calls
\* that look at what it built.
\* ------------------------------------------------------------------------

\* The caller's objects: next to the Error and the plain object with a
\* message, a property bag without message, one whose message is a number,
\* one whose message key is present and undefined, one with an empty
\* message and a cause, and an array.
UtilsHeap ==
  CallerHeap \o
  << PlainObj([NoProps EXCEPT !["code"] = Num(404)]),
     PlainObj([NoProps EXCEPT !["message"] = Num(404)]),
     PlainObj([NoProps EXCEPT !["message"] = Undef, !["code"] = Num(1)]),
     PlainObj([NoProps EXCEPT !["message"] = Str(""), !["cause"] = TheError]),
     Obj("Array", "Array", NoProps, {}, FALSE) >>
TheBag       == Ref(3)
TheNumMsg    == Ref(4)
TheUndefMsg  == Ref(5)
TheCauseBag  == Ref(6)
TheArray     == Ref(7)

UtilInputs ==
  {Undef, Null, Num(1), Bool(TRUE), Str(""), Str("not an error")}
    \cup {Ref(i) : i \in 1..Len(UtilsHeap)}

UtilTexts == {Str(""), Str("not an error"), Str("Unknown Error")}

InitUtils ==
  /\ aw = NoAsync
  /\ heap = UtilsHeap
  /\ made = [i \in 1..Len(UtilsHeap) |-> [by |-> "caller", arg |-> Undef]]
  /\ last = [NoCall EXCEPT !.base = Len(UtilsHeap)]
  /\ trail = <<>>

\* The first call of the run.
First(op, fn, arg, c) == AtStart /\ Observe2(op, Undef, fn, NoFn, arg, c) /\ UNCHANGED trail

\* A call on what the first call built.
Then(op, recv, fn, arg, c) ==
  /\ last.op \notin {"none", "unwrap", "toError again", "map", "pipe"}
  /\ Observe2(op, recv, fn, NoFn, arg, c)
  /\ UNCHANGED trail

UtilToError(e) == First("toError", NoFn, e, toError(Store, e))

UtilCreateCustomError(p) ==
  First("createCustomError", NoFn, p, createCustomError(Store, p))

UtilOk(x) == First("Ok", NoFn, x, Ok(Store, x))

UtilErr(e) == First("Err", NoFn, e, Err(Store, e))

UtilErrFromText(m) == First("ErrFromText", NoFn, m, ErrFromText(Store, m))

UtilErrFromObject(p) == First("ErrFromObject", NoFn, p, ErrFromObject(Store, p))

UtilWrap(fn) == First("wrap", fn, Undef, wrap(Store, fn))

UtilWrapThrowable(fn, a) == First("wrapThrowable", fn, a, wrapThrowable(Store, fn, a))

\* result.unwrap() on the Result the first call returned.
UtilUnwrap ==
  /\ last.outcome = "return" /\ last.val \in Results
  /\ Then("unwrap", last.val, NoFn, Undef, unwrap(Store, last.val))

\* toError applied to the error the first call returned or put in its Result.
UtilToErrorAgain ==
  /\ last.outcome = "return"
  /\ LET e == IF last.val \in Results THEN Get(Store, last.val, "error") ELSE last.val
     IN  /\ e # Undef
         /\ Then("toError again", Undef, NoFn, e, toError(Store, e))

\* result.map(fn) / result.pipe(fn) with a callback that throws, on the Ok
\* the first call returned.
UtilMap(v) ==
  /\ last.op = "Ok"
  /\ Then("map", last.val, Fn("throw", v), Undef, map(Store, last.val, Fn("throw", v)))

UtilPipe(v) ==
  /\ last.op = "Ok"
  /\ Then("pipe", last.val, Fn("throw", v), Undef, pipe(Store, last.val, Fn("throw", v)))

NextUtils ==
  \/ \E e \in UtilInputs : UtilToError(e)
  \/ \E p \in UtilInputs : UtilCreateCustomError(p)
  \/ \E x \in {Num(1)} : UtilOk(x)
  \/ \E e \in UtilInputs : UtilErr(e)
  \/ \E m \in UtilTexts : UtilErrFromText(m)
  \/ \E p \in UtilInputs : UtilErrFromObject(p)
  \/ \E fn \in {Fn("throw", v) : v \in UtilInputs}
              \cup {Fn("retOkOf", Num(5)), Fn("const", Num(5))} : UtilWrap(fn)
  \/ \E fn \in {Fn("throw", v) : v \in UtilInputs}, a \in {Num(1)} : UtilWrapThrowable(fn, a)
  \/ UtilUnwrap
  \/ UtilToErrorAgain
  \/ \E v \in UtilInputs : UtilMap(v)
  \/ \E v \in UtilInputs : UtilPipe(v)

SpecUtils == InitUtils /\ [][NextUtils]_vars

\* ------------------------------------------------------------------------
\* Properties
\* ------------------------------------------------------------------------
Present(v) == v # Undef
OkOf(r)    == Get(Store, r, "ok")
ErrorOf(r) == Get(Store, r, "error")
MadeBy(v)  == made[v.n].by
MadeArg(v) == made[v.n].arg
IsNew(v)   == v.t = "ref" /\ v.n > last.base
ErrMakers  == {"Err", "ErrFromText", "ErrFromObject"}
IsErr(v)   == v \in Results /\ isError(Store, v)

C2_PredicatesPartition ==
  /\ \A r \in Results :
       /\ isOk(Store, r) # isError(Store, r)
       /\ isOk(Store, r) <=> MadeBy(r) = "Ok"
       /\ isError(Store, r) <=> MadeBy(r) \in ErrMakers
  /\ last.op = "isOk" => last.val = Bool(MadeBy(last.recv) = "Ok")
  /\ last.op = "isError" => last.val = Bool(MadeBy(last.recv) \in ErrMakers)

\* C2 witness: isError() answered false on a success Result whose ok field
\* is undefined.
C2_Witness ==
  /\ last.op = "isError" /\ last.val = Bool(FALSE)
  /\ MadeBy(last.recv) = "Ok" /\ OkOf(last.recv) = Undef

\* C3: Ok(x) returns, for every x, a new Result with isOk() true, isError()
\* false, ok = x and error absent, and unwrap() on a Result built by Ok(x)
\* returns x.
C3_OkHoldsValue ==
  /\ last.op = "Ok" =>
       /\ last.outcome = "return" /\ IsNew(last.val) /\ last.val \in Results
       /\ isOk(Store, last.val) /\ ~isError(Store, last.val)
       /\ OkOf(last.val) = last.arg /\ ~Present(ErrorOf(last.val))
  /\ (last.op = "unwrap" /\ MadeBy(last.recv) = "Ok") =>
       /\ last.outcome = "return" /\ last.val = MadeArg(last.recv)
       /\ Len(heap) = last.base

\* C3 witness: unwrap() returned undefined from a Result built by
\* Ok(undefined).
C3_Witness ==
  /\ last.op = "unwrap" /\ last.outcome = "return" /\ last.val = Undef
  /\ MadeBy(last.recv) = "Ok" /\ MadeArg(last.recv) = Undef

\* C4: for an Error instance e, Err(e) returns a new Result with isError()
\* true, isOk() false, error the same object e and ok absent, and unwrap()
\* on it throws that same object e, allocating nothing.
C4_ErrHoldsError ==
  /\ (last.op = "Err" /\ InstanceOfError(Store, last.arg)) =>
       /\ last.outcome = "return" /\ IsNew(last.val) /\ last.val \in Results
       /\ isError(Store, last.val) /\ ~isOk(Store, last.val)
       /\ ErrorOf(last.val) = last.arg /\ ~Present(OkOf(last.val))
  /\ (last.op = "unwrap" /\ MadeBy(last.recv) = "Err") =>
       /\ last.outcome = "throw" /\ last.val = MadeArg(last.recv)
       /\ Len(heap) = last.base

\* C4 witness: unwrap() threw the caller's Error object from Err of it.
C4_Witness ==
  /\ last.op = "unwrap" /\ last.outcome = "throw" /\ last.val = TheError
  /\ MadeBy(last.recv) = "Err"

\* C5: Err of a value that is not an Error throws a TypeError at once and
\* builds no Result.
C5_ErrRejectsNonError ==
  (last.op = "Err" /\ ~InstanceOfError(Store, last.arg)) =>
    /\ last.outcome = "throw"
    /\ IsNew(last.val) /\ heap[last.val.n].cls = "TypeError"
    /\ Results = {}

\* C5 witness: Err("not an error") threw.
C5_Witness ==
  last.op = "Err" /\ last.arg = Str("not an error") /\ last.outcome = "throw"

\* C6 as stated: Err never rejects a value that has a message field.
C6_MessageNeverRejected ==
  (last.op = "Err" /\ Present(Get(Store, last.arg, "message"))) =>
    last.outcome = "return"

\* C6 as amended: Err throws exactly when its argument is not an Error
\* instance; a plain object with a message field is rejected too.
C6_RejectsExactlyNonInstances ==
  last.op = "Err" =>
    /\ last.outcome = "throw" <=> ~InstanceOfError(Store, last.arg)
    /\ last.outcome = "return" <=> last.val \in Results

\* C6 witness: Err threw for the plain object that has a message field.
C6_Witness ==
  /\ last.op = "Err" /\ last.arg = ThePlain /\ last.outcome = "throw"
  /\ Get(Store, ThePlain, "message") = Str("plain")

\* C7: in a chain of map / pipe stages, from the first stage whose receiver
\* is an Err carrying e on, every stage returns an Err carrying the same
\* object e and calls no callback.
C7_ShortCircuit ==
  \A i \in 1..Len(trail) :
    IsErr(trail[i].recv) =>
      \A j \in i..Len(trail) :
        /\ IsErr(trail[j].res)
        /\ ErrorOf(trail[j].res) = ErrorOf(trail[i].recv)
        /\ trail[j].ncalls = 0

\* C7 witness: a chain of three pipe stages on an Ok in which the first
\* stage returned an Ok, the second an Err, and the third returned an Err
\* with the same error without calling its callback.
C7_Witness ==
  /\ Len(trail) = 3
  /\ \A i \in 1..3 : trail[i].op = "pipe"
  /\ ~IsErr(trail[1].recv) /\ ~IsErr(trail[2].recv) /\ trail[2].ncalls = 1
  /\ IsErr(trail[2].res) /\ IsErr(trail[3].res)
  /\ ErrorOf(trail[3].res) = ErrorOf(trail[2].res)
  /\ trail[3].ncalls = 0

\* The callback returns (does not throw) when called.
Returns(fn) ==
  \/ fn.beh \in {"id", "const", "retOk"}
  \/ fn.beh = "retErr" /\ InstanceOfError(Store, fn.v)

\* v is what callback fn returned for argument x in the last call.
IsValueOf(fn, x, v) ==
  CASE fn.beh = "id"     -> v = x
    [] fn.beh = "const"  -> v = fn.v
    [] fn.beh = "retOk"  -> IsNew(v) /\ v \in Results /\ MadeBy(v) = "Ok" /\ OkOf(v) = x
    [] fn.beh = "retErr" -> IsNew(v) /\ v \in Results /\ MadeBy(v) = "Err"
                              /\ ErrorOf(v) = fn.v
    [] OTHER             -> FALSE

\* C8: map on a success Result with a callback f that returns calls f once,
\* with the ok value, and returns a new success Result whose ok is what f
\* returned, whatever that is.
C8_MapRewraps ==
  (last.op = "map" /\ MadeBy(last.recv) = "Ok" /\ Returns(last.fn)) =>
    /\ last.calls = <<[fn |-> last.fn, arg |-> OkOf(last.recv)]>>
    /\ last.outcome = "return"
    /\ IsNew(last.val) /\ last.val \in Results /\ last.val # last.recv
    /\ isOk(Store, last.val)
    /\ IsValueOf(last.fn, OkOf(last.recv), OkOf(last.val))

\* C8 witness: map returned an Ok holding the Err Result its callback
\* returned.
C8_Witness ==
  /\ last.op = "map" /\ last.fn.beh = "retErr" /\ MadeBy(last.recv) = "Ok"
  /\ isOk(Store, last.val) /\ IsErr(OkOf(last.val))

\* C9: pipe on a success Result with a callback f that returns a Result
\* calls f once, with the ok value, and returns the very Result f returned:
\* nothing else is allocated.
C9_PipeReturnsCallbackResult ==
  (last.op = "pipe" /\ MadeBy(last.recv) = "Ok" /\ Returns(last.fn)
     /\ last.fn.beh \in {"retOk", "retErr"}) =>
    /\ last.calls = <<[fn |-> last.fn, arg |-> OkOf(last.recv)]>>
    /\ last.outcome = "return"
    /\ Len(heap) = last.base + 1 /\ last.val = Ref(Len(heap))
    /\ IsValueOf(last.fn, OkOf(last.recv), last.val)

\* C9 witness: pipe returned the Err its callback built.
C9_Witness ==
  /\ last.op = "pipe" /\ last.fn = Fn("retErr", TheError) /\ MadeBy(last.recv) = "Ok"
  /\ IsErr(last.val) /\ ErrorOf(last.val) = TheError

\* C10: when the callback of map or pipe on a success Result throws t, the
\* call returns a new failure Result whose error is toError(t): t itself
\* when t is an Error instance, and otherwise the Error instance that
\* toError built from t.
C10_CallbackThrowIsCaught ==
  (last.op \in {"map", "pipe"} /\ MadeBy(last.recv) = "Ok" /\ last.fn.beh = "throw") =>
    /\ last.outcome = "return"
    /\ IsNew(last.val) /\ IsErr(last.val)
    /\ InstanceOfError(Store, ErrorOf(last.val))
    /\ IF InstanceOfError(Store, last.fn.v)
       THEN ErrorOf(last.val) = last.fn.v
       ELSE /\ IsNew(ErrorOf(last.val))
            /\ MadeBy(ErrorOf(last.val)) \in {"toError", "createCustomError"}
            /\ MadeArg(ErrorOf(last.val)) = last.fn.v

\* C10 witness: pipe returned an Err for a callback that threw a string, the
\* error being a new Error with that string as its message.
C10_Witness ==
  /\ last.op = "pipe" /\ last.fn = Fn("throw", Str("not an error"))
  /\ last.outcome = "return" /\ IsErr(last.val)
  /\ Get(Store, ErrorOf(last.val), "message") = Str("not an error")

\* The receiver of the last call is a success / a failure Result.
OnOk  == MadeBy(last.recv) = "Ok"
OnErr == MadeBy(last.recv) \in ErrMakers

\* A call of callback fn with argument x, as the call log records it.
CallOf(fn, x) == [fn |-> fn, arg |-> x]

\* C11: match on a success Result whose okFn returns calls okFn once with
\* the ok value, calls nothing else, and returns what okFn returned; match
\* on a failure Result never calls okFn, calls errFn first with the stored
\* error, and when that call returns it is the only call and match returns
\* what it returned.
C11_MatchDispatches ==
  last.op = "match" =>
    /\ (OnOk /\ Returns(last.fn)) =>
         /\ last.calls = <<CallOf(last.fn, OkOf(last.recv))>>
         /\ last.outcome = "return"
         /\ IsValueOf(last.fn, OkOf(last.recv), last.val)
    /\ OnErr =>
         /\ \A i \in 1..Len(last.calls) : last.calls[i].fn # last.fn
         /\ last.calls # <<>>
         /\ last.calls[1] = CallOf(last.fn2, ErrorOf(last.recv))
         /\ Returns(last.fn2) =>
              /\ Len(last.calls) = 1
              /\ last.outcome = "return"
              /\ IsValueOf(last.fn2, ErrorOf(last.recv), last.val)

\* C11 witness: match on a failure Result returned the stored error, which
\* its errFn handed back.
C11_Witness ==
  /\ last.op = "match" /\ OnErr /\ last.fn2 = Fn("id", Undef)
  /\ last.outcome = "return" /\ last.val = ErrorOf(last.recv)
  /\ Len(last.calls) = 1

\* v is toError(t) as the last call computed it: t itself when t is an Error
\* instance, and otherwise an Error instance that toError built from t
\* during the call.
IsNormalized(t, v) ==
  IF InstanceOfError(Store, t) THEN v = t
  ELSE /\ IsNew(v) /\ InstanceOfError(Store, v)
       /\ MadeBy(v) \in {"toError", "createCustomError"}
       /\ MadeArg(v) = t

\* C12: when okFn throws t in match on a success Result, errFn is then
\* called once with toError(t), and match completes as that call of errFn
\* completed: it returns what errFn returned; t is not thrown on.
C12_OkFnThrowGoesToErrFn ==
  (last.op = "match" /\ OnOk /\ last.fn.beh = "throw") =>
    /\ Len(last.calls) = 2
    /\ last.calls[1] = CallOf(last.fn, OkOf(last.recv))
    /\ last.calls[2].fn = last.fn2
    /\ IsNormalized(last.fn.v, last.calls[2].arg)
    /\ IF Returns(last.fn2)
       THEN last.outcome = "return"
              /\ IsValueOf(last.fn2, last.calls[2].arg, last.val)
       ELSE last.outcome = "throw" /\ last.val = last.fn2.v
    /\ ~(last.outcome = "throw" /\ last.val = last.fn.v)

\* C12 witness: okFn threw a string and match returned the Error that errFn
\* was given, whose message is that string.
C12_Witness ==
  /\ last.op = "match" /\ OnOk
  /\ last.fn = Fn("throw", Str("not an error")) /\ last.fn2 = Fn("id", Undef)
  /\ last.outcome = "return" /\ IsNew(last.val)
  /\ Get(Store, last.val, "message") = Str("not an error")

\* C13: orElse on a success Result returns the ok value and calls nothing;
\* orElse on a failure Result calls its callback once, with the stored
\* error, and returns what the callback returned.
C13_OrElseDispatches ==
  last.op = "orElse" =>
    /\ OnOk =>
         /\ last.calls = <<>>
         /\ last.outcome = "return" /\ last.val = OkOf(last.recv)
    /\ OnErr =>
         /\ last.calls = <<CallOf(last.fn, ErrorOf(last.recv))>>
         /\ Returns(last.fn) =>
              /\ last.outcome = "return"
              /\ IsValueOf(last.fn, ErrorOf(last.recv), last.val)

\* C13 witness: orElse on a failure Result returned the stored error, which
\* its callback handed back.
C13_Witness ==
  /\ last.op = "orElse" /\ OnErr /\ last.fn = Fn("id", Undef)
  /\ last.outcome = "return" /\ last.val = ErrorOf(last.recv)
  /\ InstanceOfError(Store, last.val)

\* C14 as stated: whatever value t the callback of orElse throws on a
\* failure Result, the caller catches exactly t.
C14_ThrownValueUnchanged ==
  (last.op = "orElse" /\ OnErr /\ last.fn.beh = "throw") =>
    last.outcome = "throw" /\ last.val = last.fn.v

\* C14 as amended: when the callback of orElse throws t on a failure Result,
\* orElse throws (nothing is swallowed) and the caller catches toError(t):
\* t itself when t is an Error instance, and otherwise a new Error instance
\* built from t, which is not t.
C14_ThrownValueNormalized ==
  (last.op = "orElse" /\ OnErr /\ last.fn.beh = "throw") =>
    /\ last.outcome = "throw"
    /\ IsNormalized(last.fn.v, last.val)
    /\ InstanceOfError(Store, last.val)
    /\ ~InstanceOfError(Store, last.fn.v) => last.val # last.fn.v

\* C14 witness: the callback threw a string and the caller caught a new
\* Error whose message is that string.
C14_Witness ==
  /\ last.op = "orElse" /\ OnErr /\ last.fn = Fn("throw", Str("not an error"))
  /\ last.outcome = "throw" /\ IsNew(last.val)
  /\ Get(Store, last.val, "message") = Str("not an error")

\* C15: unwrapOr always returns, calls nothing and allocates nothing: on a
\* success Result built from x it returns x, undefined included, and on a
\* failure Result it returns the fallback.
C15_UnwrapOrNeverThrows ==
  last.op = "unwrapOr" =>
    /\ last.outcome = "return"
    /\ last.calls = <<>>
    /\ Len(heap) = last.base
    /\ OnOk  => last.val = MadeArg(last.recv) /\ last.val = OkOf(last.recv)
    /\ OnErr => last.val = last.arg

\* C15 witness: unwrapOr(1) on a success Result built from undefined
\* returned undefined.
C15_Witness ==
  /\ last.op = "unwrapOr" /\ OnOk /\ MadeArg(last.recv) = Undef
  /\ last.arg = Num(1) /\ last.outcome = "return" /\ last.val = Undef

\* What the last call, when it is expect, returned or threw.
ExpectOutcome ==
  last.op = "expect" =>
    /\ last.calls = <<>>
    /\ OnOk => last.outcome = "return" /\ last.val = OkOf(last.recv)
    /\ OnErr =>
         /\ last.outcome = "throw"
         /\ IsNew(last.val) /\ last.val # ErrorOf(last.recv)
         /\ InstanceOfError(Store, last.val)
         /\ Get(Store, last.val, "message") = last.arg
         /\ Get(Store, last.val, "cause") = ErrorOf(last.recv)

\* A call of expect leaves every object that existed before it as it was.
ExpectFrame ==
  last'.op = "expect" =>
    \A i \in 1..last'.base : heap'[i] = heap[i]

\* C16: expect(msg) on a success Result returns the ok value; on a failure
\* Result holding e it throws an Error instance created during the call,
\* other than e, whose message is msg (the empty string included) and whose
\* cause is e; and the call changes no object that existed before it, e
\* included.
C16_Expect == []ExpectOutcome /\ [][ExpectFrame]_vars

\* C16 witness: expect("") on a failure Result threw a new Error with the
\* empty message and the stored error as its cause.
C16_Witness ==
  /\ last.op = "expect" /\ OnErr /\ last.arg = Str("")
  /\ last.outcome = "throw" /\ IsNew(last.val)
  /\ Get(Store, last.val, "message") = Str("")
  /\ Get(Store, last.val, "cause") = ErrorOf(last.recv)
  /\ heap[ErrorOf(last.recv).n].f["message"] # Str("")

\* The objects as they are after the step.
StoreAfter == [heap |-> heap', made |-> made', calls |-> <<>>]

\* A call leaves every object the caller held before it as it was: the ok
\* and error fields of the receiver, of every other Result and of every
\* error stay what they were.
NothingMutated ==
  \A i \in 1..last'.base : i <= Len(heap) /\ heap'[i] = heap[i]

\* isOk, isError and unwrap on a Result give after the step what they gave
\* before it.
QueriesStable ==
  \A r \in Results :
    /\ r.n <= Len(heap')
    /\ isOk(StoreAfter, r) = isOk(Store, r)
    /\ isError(StoreAfter, r) = isError(Store, r)
    /\ unwrap(StoreAfter, r).outcome = unwrap(Store, r).outcome
    /\ unwrap(StoreAfter, r).val = unwrap(Store, r).val

\* What the caller got from isOk, isError or unwrap is what the receiver's
\* fields give; map returned a Result created during the call; and pipe
\* returned a Result created during the call unless it returned what its
\* callback returned.
ResultsAreNew ==
  /\ last.op = "isOk" => last.val = Bool(isOk(Store, last.recv))
  /\ last.op = "isError" => last.val = Bool(isError(Store, last.recv))
  /\ last.op = "unwrap" =>
       /\ last.outcome = unwrap(Store, last.recv).outcome
       /\ last.val = unwrap(Store, last.recv).val
  /\ last.op = "map" =>
       last.outcome = "return" /\ IsNew(last.val) /\ last.val \in Results
  /\ (last.op = "pipe" /\ ~(OnOk /\ Returns(last.fn))) =>
       last.outcome = "return" /\ IsNew(last.val) /\ last.val \in Results

C18_WrapNeverThrows ==
  last.op \in {"wrap", "wrapThrowable"} =>
    /\ last.outcome = "return"
    /\ last.calls = <<CallOf(last.fn, last.arg)>>
    /\ IsNew(last.val) /\ last.val \in Results
    /\ Returns(last.fn) =>
         /\ MadeBy(last.val) = "Ok"
         /\ IsValueOf(last.fn, last.arg, OkOf(last.val))
    /\ last.fn.beh = "throw" =>
         /\ IsErr(last.val)
         /\ IsNormalized(last.fn.v, ErrorOf(last.val))

\* C18 witness: wrap returned an Err for a callback that threw a plain
\* object, the error being a new Error instance built from that object.
C18_Witness ==
  /\ last.op = "wrap" /\ last.fn = Fn("throw", ThePlain)
  /\ last.outcome = "return" /\ IsErr(last.val)
  /\ IsNew(ErrorOf(last.val))
  /\ Get(Store, ErrorOf(last.val), "code") = Num(404)

\* The callback of the asynchronous call has settled: its promise is
\* fulfilled or rejected, or it threw before returning one.
CallbackSettled ==
  aw.pc # "idle" /\ (IsSettled(aw.inner) \/ last.fn.beh = "throw")

\* The promise of the asynchronous wrapper is never rejected, the callback
\* was called once with the wrapper's arguments, and when the promise is
\* fulfilled its value is a new Result: Ok(v) when the callback's promise
\* was fulfilled with v, Err(toError(r)) when it was rejected with r or the
\* callback threw r.
OuterNeverRejects ==
  aw.pc # "idle" =>
    /\ aw.outer.state \in {"pending", "fulfilled"}
    /\ last.calls = <<CallOf(last.fn, last.arg)>>
    /\ aw.outer.state = "fulfilled" =>
         /\ CallbackSettled
         /\ IsNew(aw.outer.val) /\ aw.outer.val \in Results
         /\ aw.inner.state = "fulfilled" =>
              MadeBy(aw.outer.val) = "Ok" /\ OkOf(aw.outer.val) = aw.inner.val
         /\ aw.inner.state = "rejected" =>
              IsErr(aw.outer.val) /\ IsNormalized(aw.inner.val, ErrorOf(aw.outer.val))
         /\ last.fn.beh = "throw" =>
              IsErr(aw.outer.val) /\ IsNormalized(last.fn.v, ErrorOf(aw.outer.val))

\* C19: the promise returned by wrapAsync(fn) and by wrapAsyncThrowable(fn)(a)
\* is never rejected, and once the callback has settled (fulfilled with v,
\* rejected with r, or thrown r before returning) it is eventually
\* fulfilled, with Ok(v) or with Err(toError(r)).
C19_AsyncNeverRejects ==
  []OuterNeverRejects /\ (CallbackSettled ~> aw.outer.state = "fulfilled")

\* C19 witness: the callback's promise was pending, was then rejected with a
\* string, and the wrapper's promise is fulfilled with an Err whose error is
\* a new Error with that string as its message.
C19_Witness ==
  /\ last.op = "wrapAsync" /\ last.fn.beh = "pending"
  /\ aw.inner = Rejected(Str("not an error"))
  /\ aw.outer.state = "fulfilled" /\ IsErr(aw.outer.val)
  /\ Get(Store, ErrorOf(aw.outer.val), "message") = Str("not an error")

\* The continuation e has run / ran before the continuation f.
Logged(e)    == \E i \in 1..Len(aw.log) : aw.log[i] = e
Before(e, f) == \E i, j \in 1..Len(aw.log) : i < j /\ aw.log[i] = e /\ aw.log[j] = f

\* C20 as stated: the caller that awaits the wrapper (C) observes completion
\* in the same order, relative to other asynchronous work (M), as a caller
\* that awaits the callback directly (D).
C20_SameOrderAsDirect ==
  (Logged("C") /\ Logged("D") /\ Logged("M")) =>
    (Before("C", "M") <=> Before("D", "M"))

\* C20 as amended: the wrapper suspends once of its own, at its await of the
\* callback's promise, also when that promise is already settled; its
\* promise is settled only after the callback has settled; the caller that
\* awaits the wrapper never resumes before one that awaits the callback
\* directly, and resumes after exactly the work queued before the wrapper's
\* own resumption, where the direct caller resumes after exactly the work
\* queued before the callback settled.
C20_OneTurnLater ==
  /\ Logged("C") => Before("D", "C")
  /\ aw.pc = "awaiting" => aw.outer.state = "pending" /\ ~Logged("C")
  /\ IsSettled(aw.outer) => CallbackSettled /\ aw.pc = "done"
  /\ (Logged("C") /\ Logged("D") /\ Logged("M")) =>
       aw.log = CASE aw.workAt = "unsettled" -> <<"M", "D", "C">>
                  [] aw.workAt = "settled"   -> <<"D", "M", "C">>
                  [] OTHER                   -> <<"D", "C", "M">>

\* C20 witness: the callback returned an already fulfilled promise, other
\* work was queued before the wrapper resumed, and it ran after the direct
\* continuation but before the continuation of the wrapper's caller.
C20_Witness ==
  /\ last.op = "wrapAsync" /\ last.fn.beh = "resolved"
  /\ aw.workAt = "settled"
  /\ aw.log = <<"D", "M", "C">>
  /\ aw.outer.state = "fulfilled"

\* C21: when the callback of wrap returns a success Result holding v, the
\* Result wrap returns is a success Result whose ok is v.
C21_WrapExposesInnerValue ==
  (last.op = "wrap" /\ last.fn.beh = "retOkOf") =>
    /\ last.outcome = "return"
    /\ isOk(Store, last.val)
    /\ OkOf(last.val) = last.fn.v

\* C22: ErrFromText(message) returns, for every string, a new failure Result
\* (isError() true, isOk() false, ok undefined) whose error is an Error
\* instance created by the call with that string as its message; unwrap()
\* on it throws that error, whose message is the string.
C22_ErrFromText ==
  /\ last.op = "ErrFromText" =>
       /\ last.outcome = "return"
       /\ IsNew(last.val) /\ last.val \in Results
       /\ isError(Store, last.val) /\ ~isOk(Store, last.val)
       /\ OkOf(last.val) = Undef
       /\ IsNew(ErrorOf(last.val)) /\ InstanceOfError(Store, ErrorOf(last.val))
       /\ Get(Store, ErrorOf(last.val), "message") = last.arg
  /\ (last.op = "unwrap" /\ MadeBy(last.recv) = "ErrFromText") =>
       /\ last.outcome = "throw"
       /\ last.val = ErrorOf(last.recv)
       /\ Get(Store, last.val, "message") = MadeArg(last.recv)

\* C22 witness: unwrap() on ErrFromText("") threw an Error with the empty
\* message.
C22_Witness ==
  /\ last.op = "unwrap" /\ MadeBy(last.recv) = "ErrFromText"
  /\ MadeArg(last.recv) = Str("")
  /\ last.outcome = "throw" /\ Get(Store, last.val, "message") = Str("")

\* p is a property bag: a plain object of the caller.
IsBag(p) == p.t = "ref" /\ heap[p.n].kind = "Object"

\* The own properties of the property bag p.
Has(p, k) == heap[p.n].f[k] # Absent

\* C23: ErrFromObject(props) on a property bag returns a new failure Result
\* whose error is an Error instance created by the call; its message is
\* props.message when props has one, and every other key of props, cause
\* included, is a property of the error with the same value.
C23_ErrFromObject ==
  (last.op = "ErrFromObject" /\ IsBag(last.arg)) =>
    /\ last.outcome = "return"
    /\ IsNew(last.val) /\ IsErr(last.val) /\ OkOf(last.val) = Undef
    /\ IsNew(ErrorOf(last.val)) /\ InstanceOfError(Store, ErrorOf(last.val))
    /\ \A k \in Keys :
         Has(last.arg, k) =>
           heap[ErrorOf(last.val).n].f[k] = heap[last.arg.n].f[k]

\* C23 witness: ErrFromObject({message: "", cause: e}) returned an Err whose
\* error has the empty message and the same object e as its cause.
C23_Witness ==
  /\ last.op = "ErrFromObject" /\ last.arg = TheCauseBag
  /\ IsErr(last.val)
  /\ Get(Store, ErrorOf(last.val), "message") = Str("")
  /\ Get(Store, ErrorOf(last.val), "cause") = TheError

\* The error the last call built: the value createCustomError returned, or
\* the error of the Result ErrFromObject returned.
BuiltError == IF last.val \in Results THEN ErrorOf(last.val) ELSE last.val

HasStringMessage(v) == Get(Store, v, "message").t = "str"

\* C25: the error of every failure Result, and every value toError
\* returned, exposes a message that is a string.
C25_MessageIsString ==
  /\ \A r \in Results : IsErr(r) => HasStringMessage(ErrorOf(r))
  /\ (last.op \in {"toError", "toError again"} /\ last.outcome = "return") =>
       HasStringMessage(last.val)

\* The last call was toError(last.arg).
IsToError == last.op \in {"toError", "toError again"}

\* C26 as stated: for every value that exposes a message string, toError
\* returns that value itself and constructs nothing.
C26_IdentityOnErrorLike ==
  (IsToError /\ HasStringMessage(last.arg)) =>
    last.val = last.arg /\ Len(heap) = last.base

\* C26 as amended: toError returns its argument itself, constructing
\* nothing, exactly when the argument is an Error instance; for any other
\* argument, a plain object with a message string included, it returns an
\* Error instance created by the call, which is not the argument.
C26_IdentityOnErrorInstances ==
  IsToError =>
    /\ last.outcome = "return"
    /\ InstanceOfError(Store, last.val)
    /\ IF InstanceOfError(Store, last.arg)
       THEN last.val = last.arg /\ Len(heap) = last.base
       ELSE IsNew(last.val) /\ last.val # last.arg /\ Len(heap) = last.base + 1

\* C26 witness: toError applied to the custom error an earlier toError built
\* from a plain object with a message returned that same error.
C26_Witness ==
  /\ last.op = "toError again" /\ last.val = last.arg
  /\ MadeBy(last.arg) = "createCustomError" /\ MadeArg(last.arg) = ThePlain
  /\ last.arg # ThePlain

\* C27: for every string s, toError(s) returns an Error instance created by
\* the call whose message is s and which has no other property; and wrap of
\* a callback that throws s returns an Err whose error has the message s.
C27_StringBecomesMessage ==
  /\ (IsToError /\ last.arg.t = "str") =>
       /\ last.outcome = "return"
       /\ IsNew(last.val) /\ InstanceOfError(Store, last.val)
       /\ heap[last.val.n].f = [NoProps EXCEPT !["message"] = last.arg]
  /\ (last.op = "wrap" /\ last.fn.beh = "throw" /\ last.fn.v.t = "str") =>
       /\ last.outcome = "return" /\ IsErr(last.val)
       /\ IsNew(ErrorOf(last.val))
       /\ Get(Store, ErrorOf(last.val), "message") = last.fn.v

\* C27 witness: wrap of a callback that threw the empty string returned an
\* Err whose error has the empty message.
C27_Witness ==
  /\ last.op = "wrap" /\ last.fn = Fn("throw", Str(""))
  /\ IsErr(last.val)
  /\ Get(Store, ErrorOf(last.val), "message") = Str("")

\* C28: for every plain key-value object o that is no Error instance,
\* toError(o) returns an Error instance created by the call on which every
\* field of o is a property with the same value.
C28_FieldsPromoted ==
  (IsToError /\ IsBag(last.arg)) =>
    /\ last.outcome = "return"
    /\ IsNew(last.val) /\ InstanceOfError(Store, last.val)
    /\ MadeBy(last.val) = "createCustomError"
    /\ \A k \in Keys :
         Has(last.arg, k) => heap[last.val.n].f[k] = heap[last.arg.n].f[k]

\* C28 witness: toError({code: 404}) returned a new Error with code 404.
C28_Witness ==
  /\ last.op = "toError" /\ last.arg = TheBag
  /\ IsNew(last.val) /\ InstanceOfError(Store, last.val)
  /\ Get(Store, last.val, "code") = Num(404)

\* C29: for every value v that is no Error instance, no string and no
\* key-value object, toError(v) returns an Error instance created by the
\* call whose message is "Unknown error" and whose cause is v.
C29_FallbackKeepsCause ==
  (IsToError /\ ~InstanceOfError(Store, last.arg) /\ last.arg.t # "str"
     /\ ~isKeyValue(Store, last.arg)) =>
    /\ last.outcome = "return"
    /\ IsNew(last.val) /\ InstanceOfError(Store, last.val)
    /\ Get(Store, last.val, "message") = Str("Unknown error")
    /\ Get(Store, last.val, "cause") = last.arg

\* C30: a call of match calls errFn at most once; on a failure Result errFn
\* is called exactly once, with the stored error, and when that call throws,
\* match throws what errFn threw without calling errFn again.
C30_ErrFnCalledOnce ==
  last.op = "match" =>
    /\ Cardinality({i \in 1..Len(last.calls) : last.calls[i].fn = last.fn2}) <= 1
    /\ OnErr =>
         /\ last.calls = <<CallOf(last.fn2, ErrorOf(last.recv))>>
         /\ last.fn2.beh = "throw" =>
              last.outcome = "throw" /\ last.val = last.fn2.v

====
